---- MODULE Spec2Model ----
(***************************************************************************)
(* Model of ophydregistry.Registry (src/src/ophydregistry/registry.py).   *)
(*                                                                         *)
(* Strings are sequences of one-character strings, so that the slicing,    *)
(* stripping and splitting the registry applies to query strings is        *)
(* computed, not assumed.  Components are identities (model values as      *)
(* strings) with the attributes the registry reads from them.              *)
(***************************************************************************)
EXTENDS Integers, Sequences, FiniteSets, TLC

\* The registry: byName is _objects_by_name, byLabel is _objects_by_label,
\* keep_references is the constructor's flag; pre holds the indexes before
\* the last call and last the last call with its outcome.
\* The world around it: owned is the set of components some owner outside the
\* registry holds, gone the set of components the garbage collector has
\* reclaimed, connected the connected attribute of the components that have
\* one, clock the time since pop_disconnected read t0, poll the position
\* of the running pop_disconnected call, and objattrs the name and the
\* _ophyd_labels_ of the component whose attributes are changed from outside.
\* The host: auto_register is the registry's _auto_register, callbacks the
\* number of times the registry's register is in the host's list of
\* instantiation callbacks.
VARIABLES byName, byLabel, pre, last, keep_references, owned, gone,
          connected, clock, poll, objattrs, auto_register, callbacks

vars == <<byName, byLabel, pre, last, keep_references, owned, gone,
          connected, clock, poll, objattrs, auto_register, callbacks>>

(***************************************************************************)
(* Bounds of the model.                                                    *)
(***************************************************************************)
\* longest collection passed as a query
MaxListLen == 2

\* longest timeout handed to pop_disconnected, in clock ticks of 0.05 s
MaxTimeout == 2

(***************************************************************************)
(* Python string primitives used by the registry.                          *)
(***************************************************************************)
URB == <<"u", "s", "e", "r", "_", "r", "e", "a", "d", "b", "a", "c", "k">>
RB == <<"r", "e", "a", "d", "b", "a", "c", "k">>
VAL == <<"v", "a", "l">>

\* s[-n:]
LastChars(s, n) == IF Len(s) <= n THEN s ELSE SubSeq(s, Len(s) - n + 1, Len(s))

\* s[:-n]
DropLast(s, n) == IF Len(s) <= n THEN <<>> ELSE SubSeq(s, 1, Len(s) - n)

RECURSIVE LStrip(_)
LStrip(s) == IF s # <<>> /\ Head(s) = "_" THEN LStrip(Tail(s)) ELSE s

RECURSIVE RStrip(_)
RStrip(s) ==
    IF s # <<>> /\ s[Len(s)] = "_" THEN RStrip(SubSeq(s, 1, Len(s) - 1)) ELSE s

\* s.strip("_")
Strip(s) == RStrip(LStrip(s))

\* s.split("."): the list of the segments between the dots
RECURSIVE SplitFrom(_, _)
SplitFrom(s, cur) ==
    IF s = <<>> THEN <<cur>>
    ELSE IF Head(s) = "." THEN <<cur>> \o SplitFrom(Tail(s), <<>>)
    ELSE SplitFrom(Tail(s), Append(cur, Head(s)))

Split(s) == SplitFrom(s, <<>>)

\* "a" + "." + "b"
Dot(a, b) == a \o <<".">> \o b

(***************************************************************************)
(* The component model the registry consumes (ophyd / ophyd-async          *)
(* objects).  The registry only reads name, parent, _ophyd_labels_,        *)
(* _signals, children() and attributes.                                    *)
(***************************************************************************)
None == "None"

\* d1: a motor-like device named "m" whose user_readback r1 is also named
\*     "m"; a1 is its sub-device "ma" with signal g1 "mag".
\* d2: a different device also named "m", with signal a2 also named "ma".
\* e1: an ophyd-async device "e" (children(), no _signals) with children
\*     c1 "ec" (attribute c) and q1 "eq" (attribute q_user_readback).
\* s:  a bare signal whose name "L" is also used as a label.
\* y:  a bare signal whose name "e.c" contains a dot.
\* u:  a device with an empty name and a named signal w "uw".
\* x:  an object without a name attribute.
\* n1: a bare signal whose name and _ophyd_labels_ are changed from outside
\*     (at first "n" and {"J"}).
\* p1: a device named "_p" whose signal user_readback t1 is named
\*     "_p_user_readback".
Objs == {"d1", "r1", "a1", "g1", "d2", "a2", "e1", "c1", "q1", "s", "y",
         "u", "w", "x", "p1", "t1", "n1"}

HasName(o) == o \in Objs \ {"x"}

Name(o) ==
    CASE o \in {"d1", "r1", "d2"} -> <<"m">>
      [] o \in {"a1", "a2"} -> <<"m", "a">>
      [] o = "g1" -> <<"m", "a", "g">>
      [] o = "e1" -> <<"e">>
      [] o = "c1" -> <<"e", "c">>
      [] o = "q1" -> <<"e", "q">>
      [] o = "s" -> <<"L">>
      [] o = "y" -> <<"e", ".", "c">>
      [] o = "w" -> <<"u", "w">>
      [] o = "p1" -> <<"_", "p">>
      [] o = "t1" -> <<"_", "p", "_">> \o URB
      [] o = "n1" -> objattrs.name
      [] OTHER -> <<>>

Parent(o) ==
    CASE o \in {"r1", "a1"} -> "d1"
      [] o = "g1" -> "a1"
      [] o = "a2" -> "d2"
      [] o \in {"c1", "q1"} -> "e1"
      [] o = "w" -> "u"
      [] o = "t1" -> "p1"
      [] OTHER -> None

\* getattr(o, "_ophyd_labels_", [])
OphydLabels(o) ==
    CASE o \in {"d1", "a1"} -> {<<"L">>}
      [] o \in {"d2", "e1"} -> {<<"K">>}
      [] o = "u" -> {<<"K">>}
      [] o = "n1" -> objattrs.labels
      [] OTHER -> {}

\* hasattr(o, "_signals") and the items of that mapping, in order
HasSignals(o) == o \in {"d1", "a1", "d2", "u", "p1"}

Signals(o) ==
    CASE o = "d1" -> << <<URB, "r1">>, <<<<"a">>, "a1">> >>
      [] o = "a1" -> << <<<<"g">>, "g1">> >>
      [] o = "d2" -> << <<<<"a">>, "a2">> >>
      [] o = "u" -> << <<<<"w">>, "w">> >>
      [] o = "p1" -> << <<URB, "t1">> >>
      [] OTHER -> <<>>

\* hasattr(o, "children") and the pairs children() yields
HasChildren(o) == o \in {"e1", "c1", "q1"}

Children(o) ==
    CASE o = "e1" -> << <<<<"c">>, "c1">>, <<<<"q", "_">> \o URB, "q1">> >>
      [] OTHER -> <<>>

SubPairs(o) == IF HasSignals(o) THEN Signals(o) ELSE Children(o)

\* getattr(o, a); NoAttr stands for AttributeError
NoAttr == "NoAttr"

Attr(o, a) ==
    LET ps == SubPairs(o)
        hit == {i \in 1..Len(ps) : ps[i][1] = a}
    IN  IF o \notin Objs \/ hit = {} THEN NoAttr
        ELSE ps[CHOOSE i \in hit : TRUE][2]

(***************************************************************************)
(* Dictionaries (name -> component, label -> set of components) are        *)
(* functions whose domain is the set of keys present.                      *)
(***************************************************************************)
EmptyDict == [k \in {} |-> None]

Put(f, k, v) == [x \in (DOMAIN f) \cup {k} |-> IF x = k THEN v ELSE f[x]]

\* the entry is left in place
Del_Keep(f, k) == f

\* del f[k]
Del(f, k) == [x \in (DOMAIN f) \ {k} |-> f[x]]

Range(q) == {q[i] : i \in 1..Len(q)}

RECURSIVE SetToSeq(_)
SetToSeq(S) ==
    IF S = {} THEN <<>>
    ELSE LET x == CHOOSE y \in S : TRUE IN <<x>> \o SetToSeq(S \ {x})

\* remove_duplicates: list(set(items))
remove_duplicates(items) == SetToSeq(Range(items))

(***************************************************************************)
(* Query values: None, a string, a component object, or a list of query   *)
(* values.                                                                 *)
(***************************************************************************)
QNone == [kind |-> "none", s |-> <<>>, o |-> None, items |-> <<>>]
QStr(s) == [kind |-> "str", s |-> s, o |-> None, items |-> <<>>]
QObj(o) == [kind |-> "obj", s |-> <<>>, o |-> o, items |-> <<>>]
QList(items) == [kind |-> "list", s |-> <<>>, o |-> None, items |-> items]

\* is_iterable(obj): not a string, and an Iterable
is_iterable(q) == q.kind = "list"

\* no object counts as resolved
_is_resolved_Never(q) == FALSE

\* Registry._is_resolved: isinstance(obj, Device), i.e. the object has a name
_is_resolved(q) == q.kind = "obj" /\ HasName(q.o)

\* Outcome of a call: the sequence it returns, or the exception it raises
Ok(out) == [err |-> "ok", out |-> out]
Raise(e) == [err |-> e, out |-> <<>>]

CNF == "ComponentNotFound"
MCF == "MultipleComponentsFound"
AttrErr == "AttributeError"

\* only the first attribute is applied
Traverse_First(o, attrs) ==
    IF attrs = <<>> THEN o ELSE Attr(o, Head(attrs))

\* for attr in attrs: cpt_ = getattr(cpt_, attr)
RECURSIVE Traverse(_, _)
Traverse(o, attrs) ==
    IF attrs = <<>> THEN o
    ELSE IF Attr(o, Head(attrs)) = NoAttr THEN NoAttr
    ELSE Traverse(Attr(o, Head(attrs)), Tail(attrs))

\* The outcome of running r and then rest: the first exception raised, or
\* the items yielded by both
Then(r, rest) ==
    IF r.err # "ok" THEN r
    ELSE IF rest.err # "ok" THEN rest
    ELSE Ok(r.out \o rest.out)

RECURSIVE findall(_, _, _, _, _, _)
RECURSIVE find(_, _, _, _, _, _)
RECURSIVE _findall_by_label(_, _, _, _)
RECURSIVE _findall_by_name(_, _, _)
RECURSIVE EachLabel(_, _, _, _)
RECURSIVE EachName(_, _, _)
RECURSIVE EachAnyOf(_, _, _, _)

\* registry.py 373-374: for lbl in label: yield from self.findall(label=lbl, allow_none=allow_none)
EachLabel(bn, bl, items, allow_none) ==
    IF items = <<>> THEN Ok(<<>>)
    ELSE Then(findall(bn, bl, QNone, Head(items), QNone, allow_none),
              EachLabel(bn, bl, Tail(items), allow_none))

\* registry.py 407-408: for n in name: yield from self.findall(name=n)
EachName(bn, bl, items) ==
    IF items = <<>> THEN Ok(<<>>)
    ELSE Then(findall(bn, bl, QNone, QNone, Head(items), FALSE),
              EachName(bn, bl, Tail(items)))

\* only the first element is resolved
EachAnyOf_First(bn, bl, items, allow_none) ==
    IF items = <<>> THEN Ok(<<>>)
    ELSE findall(bn, bl, Head(items), QNone, QNone, allow_none)

\* registry.py 482-483: for a in any_of: results.append(self.findall(any_of=a, allow_none=allow_none))
EachAnyOf(bn, bl, items, allow_none) ==
    IF items = <<>> THEN Ok(<<>>)
    ELSE Then(findall(bn, bl, Head(items), QNone, QNone, allow_none),
              EachAnyOf(bn, bl, Tail(items), allow_none))

\* registry.py 381-389: the members of the label set, each followed along attrs
LabelLookup(bl, key, attrs) ==
    IF key \notin DOMAIN bl THEN Ok(<<>>)
    ELSE IF \E c \in bl[key] : Traverse(c, attrs) = NoAttr THEN Raise(AttrErr)
    ELSE Ok(SetToSeq({Traverse(c, attrs) : c \in bl[key]}))

_findall_by_label(bn, bl, label, allow_none) ==
    IF _is_resolved(label) THEN Ok(<<label.o>>)
    ELSE IF is_iterable(label) THEN EachLabel(bn, bl, label.items, allow_none)
    ELSE IF label.kind # "str" THEN Ok(<<>>)
    ELSE LabelLookup(bl, Head(Split(label.s)), Tail(Split(label.s)))

\* registry.py 405: self.find(name=parentname).user_readback
UserReadbackOf(r) ==
    IF r.err # "ok" THEN r
    ELSE IF Attr(r.out[1], URB) = NoAttr THEN Raise(AttrErr)
    ELSE Ok(<<Attr(r.out[1], URB)>>)

\* registry.py 416-424: the component stored under key, followed along attrs
NameLookup(bn, key, attrs) ==
    IF key \notin DOMAIN bn THEN Ok(<<>>)
    ELSE IF Traverse(bn[key], attrs) = NoAttr THEN Raise(AttrErr)
    ELSE Ok(<<Traverse(bn[key], attrs)>>)

_findall_by_name(bn, bl, name) ==
    IF _is_resolved(name) THEN Ok(<<name.o>>)
    ELSE IF name.kind = "str" /\ LastChars(name.s, 13) = URB THEN
        UserReadbackOf(find(bn, bl, QNone, QNone,
                            QStr(Strip(DropLast(name.s, 14))), FALSE))
    ELSE IF is_iterable(name) THEN EachName(bn, bl, name.items)
    ELSE IF name.kind # "str" THEN Ok(<<>>)
    ELSE NameLookup(bn, Head(Split(name.s)), Tail(Split(name.s)))

\* registry.py 486-490: the label filter, then the name filter
ByLabelThenName(bn, bl, _label, _name, allow_none) ==
    Then(IF _label # QNone THEN _findall_by_label(bn, bl, _label, allow_none)
                           ELSE Ok(<<>>),
         IF _name # QNone THEN _findall_by_name(bn, bl, _name) ELSE Ok(<<>>))

\* registry.py 492-497
CheckEmpty(devices, allow_none) ==
    IF devices.err # "ok" THEN devices
    ELSE IF Len(devices.out) = 0 /\ ~allow_none THEN Raise(CNF)
    ELSE Ok(remove_duplicates(devices.out))

findall(bn, bl, any_of, label, name, allow_none) ==
    CheckEmpty(IF is_iterable(any_of)
               THEN EachAnyOf(bn, bl, any_of.items, allow_none)
               ELSE ByLabelThenName(bn, bl,
                                    IF label # QNone THEN label ELSE any_of,
                                    IF name # QNone THEN name ELSE any_of,
                                    allow_none),
               allow_none)

\* registry.py 343-354: one result is returned, several raise, none is None
ExactlyOne(results) ==
    IF results.err # "ok" THEN results
    ELSE IF Len(results.out) = 1 THEN Ok(<<results.out[1]>>)
    ELSE IF Len(results.out) > 1 THEN Raise(MCF)
    ELSE Ok(<<>>)

\* find returns <<result>>, or <<>> for None
find(bn, bl, any_of, label, name, allow_none) ==
    ExactlyOne(findall(bn, bl, any_of, label, name, allow_none))

(***************************************************************************)
(* Registration pipeline.  The registry state is passed explicitly:        *)
(* bn is _objects_by_name, bl is _objects_by_label, warns counts the       *)
(* warnings.warn calls made so far.                                        *)
(***************************************************************************)
St(bn, bl, warns) == [bn |-> bn, bl |-> bl, warns |-> warns]

\* the labels argument of register: None, or a collection of labels
LabelsNone == [given |-> FALSE, ls |-> {}]
LabelsOf(ls) == [given |-> TRUE, ls |-> ls]

\* getattr(old_obj, a, None)
GetAttrOrNone(o, a) == IF Attr(o, a) = NoAttr THEN None ELSE Attr(o, a)

\* no component counts as a readback of the stored one
is_readback_Never(component, old_obj) == FALSE

\* registry.py 554-558
is_readback(component, old_obj) ==
    component \in {GetAttrOrNone(old_obj, RB), GetAttrOrNone(old_obj, URB),
                   GetAttrOrNone(old_obj, VAL)}

\* the old keys stay
DropOldKeys_None(bn, component) == bn

\* registry.py 579-583: drop every key under which the component is stored
DropOldKeys(bn, component) ==
    [k \in {x \in DOMAIN bn : bn[x] # component} |-> bn[k]]

\* registry.py 585-586
RegisterByName(bn, component) ==
    IF Name(component) # <<>> THEN Put(bn, Name(component), component) ELSE bn

\* registry.py 592-598: add the component to the set of each label
RECURSIVE AddLabels(_, _, _)
AddLabels(bl, ls, component) ==
    IF ls = {} THEN bl
    ELSE LET l == CHOOSE x \in ls : TRUE
             had == IF l \in DOMAIN bl THEN bl[l] ELSE {}
         IN  AddLabels(Put(bl, l, had \cup {component}), ls \ {l}, component)

\* registry.py 605-612: the sub-components register recurses into
sub_signals(component) ==
    IF HasSignals(component) THEN Signals(component)
    ELSE IF HasChildren(component) THEN Children(component)
    ELSE <<>>

\* the same-object test is lost
AlreadyRegistered_Never(old_obj, component) == FALSE

\* registry.py 563-566: the component is already stored under its name
AlreadyRegistered(old_obj, component) == old_obj = component

\* the sub-components warn whenever the call does
SubWarn_Parent(is_duplicate, warn_duplicates) == warn_duplicates

\* registry.py 614: warn_duplicates=not is_duplicate and warn_duplicates
SubWarn(is_duplicate, warn_duplicates) == ~is_duplicate /\ warn_duplicates

RECURSIVE register(_, _, _, _)
RECURSIVE RegisterSubs(_, _, _)

\* no sub-component is registered
RegisterSubs_None(st, subs, warn) == st

\* registry.py 613-614
RegisterSubs(st, subs, warn) ==
    IF subs = <<>> THEN st
    ELSE RegisterSubs(register(st, Head(subs)[2], LabelsNone, warn), Tail(subs), warn)

\* registry.py 507-615 (instances; warn_duplicates already resolved)
register(st, component, labels, warn_duplicates) ==
    IF ~HasName(component) THEN st
    ELSE LET name == Name(component)
             known == name \in DOMAIN st.bn
         IN  IF known /\ is_readback(component, st.bn[name]) THEN st
             ELSE IF known /\ AlreadyRegistered(st.bn[name], component) THEN st
             ELSE LET is_duplicate == known
                      warns == IF is_duplicate /\ warn_duplicates
                               THEN st.warns + 1 ELSE st.warns
                      bn == RegisterByName(DropOldKeys(st.bn, component), component)
                      ophyd_labels == IF labels.given THEN labels.ls
                                      ELSE OphydLabels(component)
                      bl == AddLabels(st.bl, ophyd_labels, component)
                  IN  RegisterSubs(St(bn, bl, warns), sub_signals(component),
                                   SubWarn(is_duplicate, warn_duplicates))

(***************************************************************************)
(* Removal.                                                                *)
(***************************************************************************)
UNSET == "UNSET"

\* registry.py 213-215
DiscardFromLabels(bl, obj) == [l \in DOMAIN bl |-> bl[l] \ {obj}]

\* registry.py 217: getattr(obj, "_signals", {})
PopSubs(obj) == IF HasSignals(obj) THEN Signals(obj) ELSE <<>>

\* Outcome of pop: the indexes afterwards, the exception raised (or "ok")
\* and the value returned
PopRes(bn, bl, err, ret) == [bn |-> bn, bl |-> bl, err |-> err, ret |-> ret]

RECURSIVE pop(_, _, _, _)
RECURSIVE PopEach(_, _, _)

\* the loop goes on unless the pop of a sub-component raised
PopRest(r, subs) == IF r.err # "ok" THEN r ELSE PopEach(r.bn, r.bl, subs)

\* registry.py 218-219: for cpt_name, cpt in sub_signals.items(): self.pop(cpt)
PopEach(bn, bl, subs) ==
    IF subs = <<>> THEN PopRes(bn, bl, "ok", None)
    ELSE PopRest(pop(bn, bl, QObj(Head(subs)[2]), UNSET), Tail(subs))

\* registry.py 220: return obj
PopReturn(r, obj) == IF r.err # "ok" THEN r ELSE PopRes(r.bn, r.bl, "ok", obj)

\* registry.py 207-220: remove obj from both indexes, then its _signals
PopObject(bn, bl, obj) ==
    PopReturn(PopEach(IF Name(obj) \in DOMAIN bn THEN Del(bn, Name(obj)) ELSE bn,
                      DiscardFromLabels(bl, obj),
                      PopSubs(obj)),
              obj)

\* the default is never returned
PopFound_NoDefault(bn, bl, f, default) ==
    IF f.err # "ok" THEN PopRes(bn, bl, f.err, None)
    ELSE PopObject(bn, bl, f.out[1])

\* registry.py 199-206: the outcome of self[key] decides
PopFound(bn, bl, f, default) ==
    IF f.err = CNF /\ default # UNSET THEN PopRes(bn, bl, "ok", default)
    ELSE IF f.err # "ok" THEN PopRes(bn, bl, f.err, None)
    ELSE PopObject(bn, bl, f.out[1])

\* registry.py 189-220
pop(bn, bl, key, default) ==
    PopFound(bn, bl, find(bn, bl, key, QNone, QNone, FALSE), default)

\* registry.py 271-287: the read-only views
component_names(bn) == DOMAIN bn
root_devices(bn) == {bn[k] : k \in {x \in DOMAIN bn : Parent(bn[x]) = None}}
device_names(bn) == {k \in DOMAIN bn : Parent(bn[k]) = None}

(***************************************************************************)
(* Inputs of the calls.                                                    *)
(***************************************************************************)
\* components handed to register
RegArgs == {"d1", "d2", "e1", "s", "y", "r1", "u", "x"}

\* labels handed to register
RegInputs ==
    {<<c, LabelsNone>> : c \in RegArgs} \cup
    {<<"s", LabelsOf({<<"K">>})>>}

\* the resolved warn_duplicates of a register call
WarnArgs == {TRUE, FALSE}

\* query strings: names, labels, dotted paths, readback aliases, unknowns
QueryStrings ==
    {<<"m">>, <<"m", "a">>, <<"e">>, <<"L">>, <<"K">>, <<"z">>,
     Dot(<<"m">>, <<"a">>), Dot(Dot(<<"m">>, <<"a">>), <<"g">>),
     Dot(<<"L">>, <<"a">>), Dot(<<"K">>, <<"c">>), Dot(<<"e">>, <<"c">>),
     Dot(<<"m">>, <<"z">>),
     Dot(<<"e">>, <<"q", "_">> \o URB), Dot(<<"K">>, <<"q", "_">> \o URB),
     Dot(<<"m">>, URB), <<"m", "_">> \o URB, <<"z", "_">> \o URB,
     <<"_", "p", "_">> \o URB}

\* strings used as elements of a collection query
ListStrings == {<<"m">>, <<"z">>}

RECURSIVE ListsUpTo(_)
ListsUpTo(n) ==
    IF n = 0 THEN {<<>>}
    ELSE ListsUpTo(n - 1) \cup
         {Append(l, QStr(x)) : l \in {y \in ListsUpTo(n - 1) : Len(y) = n - 1},
                               x \in ListStrings}

QueryLists == {QList(l) : l \in ListsUpTo(MaxListLen)}

QueryObjs == {QObj(o) : o \in {"d1", "s"}}

Queries == {QStr(x) : x \in QueryStrings} \cup QueryLists \cup QueryObjs

\* the keyword combinations of find and findall
QueryArgs ==
    {<<q, QNone, QNone>> : q \in Queries} \cup
    {<<QNone, q, QNone>> : q \in Queries} \cup
    {<<QNone, QNone, q>> : q \in Queries} \cup
    {<<QStr(<<"L">>), QNone, QStr(<<"e">>)>>,
     <<QStr(<<"m">>), QStr(<<"K">>), QNone>>,
     <<QList(<<QStr(<<"m">>)>>), QStr(<<"K">>), QNone>>,
     <<QList(<<QStr(<<"m">>)>>), QNone, QStr(<<"e">>)>>,
     <<QNone, QNone, QNone>>}

\* components registered before querying
QueryRegArgs == {"d1", "d2", "e1", "s", "p1"}

\* keys handed to pop
PopKeys == {QStr(x) : x \in {<<"m">>, <<"e">>, <<"L">>, <<"e", ".", "c">>, <<"z">>}}
           \cup {QObj(o) : o \in {"d1", "r1", "e1"}}

\* keys handed to del
DelKeys == {QStr(<<"m">>), QStr(<<"z">>)}

\* key and default handed to pop
PopInputs ==
    {<<k, UNSET>> : k \in PopKeys} \cup
    {<<QStr(<<"z">>), "dflt">>, <<QStr(<<"m">>), "dflt">>}

(***************************************************************************)
(* State: the two indexes, the indexes as they were before the last call   *)
(* (pre), and the last call with its outcome (last).                       *)
(***************************************************************************)
Idx(bn, bl) == [bn |-> bn, bl |-> bl]

Blank ==
    [op |-> "init", c |-> None, labels |-> LabelsNone, warn |-> TRUE,
     any_of |-> QNone, label |-> QNone, name |-> QNone, allow_none |-> FALSE,
     key |-> QNone, default |-> UNSET,
     err |-> "ok", out |-> <<>>, ret |-> None, warns |-> 0]

\* no pop_disconnected call is running
Idle ==
    [pc |-> "idle", remaining |-> {}, timeout |-> 0, wake |-> 0,
     roots0 |-> {}, disc0 |-> {}, seen |-> {}, early |-> {}]

\* the components that have a connected attribute
HasConnected(o) == o \in {"d1", "e1", "s"}

\* registry.py 147: self.clear() leaves both indexes empty
EmptyRegistry ==
    /\ byName = EmptyDict
    /\ byLabel = EmptyDict
    /\ pre = Idx(EmptyDict, EmptyDict)
    /\ last = Blank

\* every component is connected, the clock is at 0, no call is running
Still ==
    /\ connected = [o \in {x \in Objs : HasConnected(x)} |-> TRUE]
    /\ clock = 0
    /\ poll = Idle
    /\ objattrs = [name |-> <<"n">>, labels |-> {<<"J">>}]

\* registry.py 148, 156-164: auto_register=True (the default) has added the
\* registry's register to the instantiation callbacks once
Hooked ==
    /\ auto_register = TRUE
    /\ callbacks = 1

\* nothing is tracked as held or reclaimed
QuietWorld ==
    /\ owned = {}
    /\ gone = {}
    /\ Still

\* registry.py 134-149: Registry() with keep_references=True (the default)
Init ==
    /\ EmptyRegistry
    /\ keep_references = TRUE
    /\ QuietWorld
    /\ Hooked

\* the indexes become bn and bl, and the call is recorded
Indexes(bn, bl, call) ==
    /\ byName' = bn
    /\ byLabel' = bl
    /\ pre' = Idx(byName, byLabel)
    /\ last' = call

\* a call of the registry that leaves the world around it alone
Becomes(bn, bl, call) ==
    /\ Indexes(bn, bl, call)
    /\ UNCHANGED <<keep_references, objattrs, auto_register, callbacks,
                   owned, gone, connected, clock, poll>>

Registered(r, c, labels, warn) ==
    Becomes(r.bn, r.bl,
            [Blank EXCEPT !.op = "register", !.c = c, !.labels = labels,
                          !.warn = warn, !.ret = c, !.warns = r.warns])

Register(c, labels, warn) ==
    Registered(register(St(byName, byLabel, 0), c, labels, warn), c, labels, warn)

Popped(r, key, default) ==
    Becomes(r.bn, r.bl,
            [Blank EXCEPT !.op = "pop", !.key = key, !.default = default,
                          !.err = r.err, !.ret = r.ret])

Pop(key, default) == Popped(pop(byName, byLabel, key, default), key, default)

Deleted(r, key) ==
    Becomes(r.bn, r.bl, [Blank EXCEPT !.op = "delitem", !.key = key, !.err = r.err])

\* registry.py 180-187: del registry[key]
DelItem(key) == Deleted(pop(byName, byLabel, key, UNSET), key)

\* the label sets survive the call
Clear_KeepLabels == Becomes(EmptyDict, byLabel, [Blank EXCEPT !.op = "clear"])

\* registry.py 222-238
Clear == Becomes(EmptyDict, EmptyDict, [Blank EXCEPT !.op = "clear"])

Queried(op, r, any_of, label, name, allow_none) ==
    Becomes(byName, byLabel,
            [Blank EXCEPT !.op = op, !.any_of = any_of, !.label = label,
                          !.name = name, !.allow_none = allow_none,
                          !.err = r.err, !.out = r.out,
                          !.ret = IF op = "find" /\ r.err = "ok" /\ r.out # <<>>
                                  THEN r.out[1] ELSE None])

FindAll(any_of, label, name, allow_none) ==
    Queried("findall", findall(byName, byLabel, any_of, label, name, allow_none),
            any_of, label, name, allow_none)

Find(any_of, label, name, allow_none) ==
    Queried("find", find(byName, byLabel, any_of, label, name, allow_none),
            any_of, label, name, allow_none)

Next ==
    \/ \E i \in RegInputs, w \in WarnArgs : Register(i[1], i[2], w)
    \/ \E i \in PopInputs : Pop(i[1], i[2])
    \/ \E k \in DelKeys : DelItem(k)
    \/ Clear

Spec == Init /\ [][Next]_vars

\* the registry under queries: components are registered, then looked up
NextQ ==
    \/ \E c \in QueryRegArgs : Register(c, LabelsNone, TRUE)
    \/ \E a \in QueryArgs, n \in BOOLEAN : FindAll(a[1], a[2], a[3], n)
    \/ \E a \in QueryArgs, n \in BOOLEAN : Find(a[1], a[2], a[3], n)

SpecQ == Init /\ [][NextQ]_vars

(***************************************************************************)
(* pop_disconnected, which blocks its caller between sampling rounds, and  *)
(* the threads that change the connected attribute of components           *)
(* meanwhile.  The clock counts ticks of 0.05 s since the call read t0.    *)
(***************************************************************************)
\* timeouts handed to pop_disconnected
Timeouts == {0, MaxTimeout}

\* 0.05 s
SleepCap == 1

\* registry.py 265: min((0.05, timeout / 10.0)), in whole ticks
SleepTicks(timeout) ==
    IF timeout \div 10 < SleepCap THEN timeout \div 10 ELSE SleepCap

\* components registered before pop_disconnected is called
PollRegArgs == {"d1", "e1", "s", "p1"}

\* registry.py 260: getattr(dev, "connected", True)
ReportsConnected(dev) == IF HasConnected(dev) THEN connected[dev] ELSE TRUE

\* Outcome of the pops that end pop_disconnected
PopAllRes(bn, bl, err, out) == [bn |-> bn, bl |-> bl, err |-> err, out |-> out]

\* the popped object goes in front of the ones popped after it
Popped1(ret, r) == IF r.err # "ok" THEN r ELSE [r EXCEPT !.out = <<ret>> \o r.out]

RECURSIVE PopAll(_, _, _)

PopAllRest(r, devs) ==
    IF r.err # "ok" THEN PopAllRes(r.bn, r.bl, r.err, <<>>)
    ELSE Popped1(r.ret, PopAll(r.bn, r.bl, devs))

\* registry.py 268: popped = [self.pop(dev) for dev in remaining]
PopAll(bn, bl, devs) ==
    IF devs = <<>> THEN PopAllRes(bn, bl, "ok", <<>>)
    ELSE PopAllRest(pop(bn, bl, QObj(Head(devs)), UNSET), Tail(devs))

\* register is called while no pop_disconnected is running
RegisterIdle(c) == poll.pc = "idle" /\ Register(c, LabelsNone, TRUE)

\* another thread sets the connected attribute of o; while pop_disconnected
\* runs, components only connect.  early collects the components that were
\* disconnected when the call started and connect before the timeout has
\* elapsed
SetConnected(o, v) ==
    /\ HasConnected(o)
    /\ connected[o] # v
    /\ poll.pc = "idle" \/ v
    /\ connected' = [connected EXCEPT ![o] = v]
    /\ poll' = IF poll.pc # "idle" /\ o \in poll.disc0 /\ clock < poll.timeout
               THEN [poll EXCEPT !.early = @ \cup {o}] ELSE poll
    /\ UNCHANGED <<byName, byLabel, pre, last, keep_references, objattrs,
                   auto_register, callbacks, owned, gone, clock>>

\* registry.py 254-256: remaining = the root devices, t0 = time.monotonic()
PollStart(timeout) ==
    /\ poll.pc = "idle"
    /\ poll' = [pc |-> "filter", remaining |-> root_devices(byName),
                timeout |-> timeout, wake |-> 0,
                roots0 |-> root_devices(byName),
                disc0 |-> {r \in root_devices(byName) : ~ReportsConnected(r)},
                seen |-> {}, early |-> {}]
    /\ clock' = 0
    /\ UNCHANGED <<byName, byLabel, pre, last, keep_references, objattrs,
                   auto_register, callbacks, owned, gone, connected>>

\* the devices of remaining that report connected == False
StillDisconnected == {dev \in poll.remaining : ~ReportsConnected(dev)}

\* registry.py 257-265: one sampling round, then break or time.sleep
PollFilter ==
    /\ poll.pc = "filter"
    /\ poll' = [poll EXCEPT !.remaining = StillDisconnected,
                            !.seen = @ \cup (poll.remaining \ StillDisconnected),
                            !.pc = IF StillDisconnected = {} THEN "pop" ELSE "sleep",
                            !.wake = clock + SleepTicks(poll.timeout)]
    /\ UNCHANGED <<byName, byLabel, pre, last, keep_references, objattrs,
                   auto_register, callbacks, owned, gone,
                   connected, clock>>

\* the timeout is never seen as reached
PollWake_Never ==
    /\ poll.pc = "sleep"
    /\ clock >= poll.wake
    /\ poll' = [poll EXCEPT !.pc = "filter"]
    /\ UNCHANGED <<byName, byLabel, pre, last, keep_references, objattrs,
                   auto_register, callbacks, owned, gone,
                   connected, clock>>

\* registry.py 265-266: the sleep ends, timeout_reached = elapsed > timeout
PollWake ==
    /\ poll.pc = "sleep"
    /\ clock >= poll.wake
    /\ poll' = [poll EXCEPT !.pc = IF clock > poll.timeout THEN "pop" ELSE "filter"]
    /\ UNCHANGED <<byName, byLabel, pre, last, keep_references, objattrs,
                   auto_register, callbacks, owned, gone,
                   connected, clock>>

\* time passes while pop_disconnected runs
Tick ==
    /\ poll.pc # "idle"
    /\ clock <= poll.timeout
    /\ clock' = clock + 1
    /\ UNCHANGED <<byName, byLabel, pre, last, keep_references, objattrs,
                   auto_register, callbacks, owned, gone,
                   connected, poll>>

Evicted(r) ==
    /\ Indexes(r.bn, r.bl,
               [Blank EXCEPT !.op = "pop_disconnected", !.err = r.err, !.out = r.out])
    /\ poll' = [poll EXCEPT !.pc = "idle"]
    /\ UNCHANGED <<keep_references, objattrs, auto_register, callbacks,
                   owned, gone, connected, clock>>

\* registry.py 267-269: pop what is left and return it
PollReturn ==
    /\ poll.pc = "pop"
    /\ Evicted(PopAll(byName, byLabel, SetToSeq(poll.remaining)))

NextD ==
    \/ \E c \in PollRegArgs : RegisterIdle(c)
    \/ \E o \in Objs, v \in BOOLEAN : SetConnected(o, v)
    \/ \E t \in Timeouts : PollStart(t)
    \/ PollFilter
    \/ PollWake
    \/ Tick
    \/ PollReturn

\* the registry under eviction: components are registered, connect and
\* disconnect, and pop_disconnected runs
SpecD == Init /\ [][NextD]_vars

\* components registered before a pop_disconnected call that is followed to
\* its end
LiveRegArgs == {"d1", "s"}

NextL ==
    \/ \E c \in LiveRegArgs : RegisterIdle(c)
    \/ \E o \in LiveRegArgs, v \in BOOLEAN : SetConnected(o, v)
    \/ \E t \in Timeouts : PollStart(t)
    \/ PollFilter
    \/ PollWake
    \/ Tick
    \/ PollReturn

\* registry.py 257-266: the loop of the calling thread, which has no wait
\* other than time.sleep
PollLoop == PollFilter \/ PollWake

\* registry.py 268-269 as far as the position of the calling thread goes: the
\* guard of PollReturn and its effect on poll.  It is enabled exactly when
\* PollReturn is, and every step that leaves pc = "pop" disables it
PollLeaves ==
    /\ poll.pc = "pop"
    /\ poll' = [poll EXCEPT !.pc = "idle"]
    /\ UNCHANGED <<byName, byLabel, pre, last, keep_references, objattrs,
                   auto_register, callbacks, owned, gone, connected, clock>>

\* the calling thread keeps running and time.monotonic() advances
SpecL ==
    /\ Init
    /\ [][NextL]_vars
    /\ WF_vars(PollLoop)
    /\ WF_vars(PollLeaves)
    /\ WF_vars(Tick)

(***************************************************************************)
(* Ownership.  With keep_references=False the name index is a              *)
(* WeakValueDictionary and the label sets are WeakSets: the registry does  *)
(* not keep a component alive, and an entry disappears when the garbage    *)
(* collector reclaims its component.  A device and its sub-components      *)
(* refer to each other, so they are reclaimed together.                    *)
(***************************************************************************)
\* root components handed to register
WeakArgs == {"d1", "e1", "s"}

\* components an owner outside the registry may hold
HoldArgs == {"d1", "a1", "e1", "s"}

\* o and everything reachable from it through _signals or children()
RECURSIVE Reach(_)
Reach(o) ==
    {o} \cup UNION {Reach(sub_signals(o)[i][2]) : i \in 1..Len(sub_signals(o))}

\* registry.py 232-236, 594-597: the registry holds a strong reference to
\* some component of T only if keep_references is true
RegistryKeeps(T) ==
    /\ keep_references
    /\ \E x \in T : \/ \E k \in DOMAIN byName : byName[k] = x
                    \/ \E l \in DOMAIN byLabel : x \in byLabel[l]

\* the entries stay in the name index
WeakValues_Keep(bn, T) == bn

\* WeakValueDictionary: the entries whose value was reclaimed are gone
WeakValues(bn, T) == [k \in {x \in DOMAIN bn : bn[x] \notin T} |-> bn[k]]

\* WeakSet: the members that were reclaimed are gone
WeakSets(bl, T) == [l \in DOMAIN bl |-> bl[l] \ T]

\* registry.py 134-149: Registry(keep_references=...), every component held
\* by the code that created it
InitW ==
    /\ EmptyRegistry
    /\ keep_references \in BOOLEAN
    /\ owned = WeakArgs
    /\ gone = {}
    /\ Still
    /\ Hooked

\* register is called by an owner of the component
RegisterHeld(c) == c \in owned /\ Register(c, LabelsNone, TRUE)

\* somebody who can still reach c takes a reference to it
Hold(c) ==
    /\ c \notin gone
    /\ c \notin owned
    /\ owned' = owned \cup {c}
    /\ UNCHANGED <<byName, byLabel, pre, last, keep_references, objattrs,
                   auto_register, callbacks, gone,
                   connected, clock, poll>>

\* an owner drops its reference
Release(c) ==
    /\ c \in owned
    /\ owned' = owned \ {c}
    /\ UNCHANGED <<byName, byLabel, pre, last, keep_references, objattrs,
                   auto_register, callbacks, gone,
                   connected, clock, poll>>

\* the garbage collector reclaims a device and its sub-components once
\* nothing outside holds any of them and the registry does not either
Collect(root) ==
    /\ root \notin gone
    /\ Reach(root) \cap owned = {}
    /\ ~RegistryKeeps(Reach(root))
    /\ gone' = gone \cup Reach(root)
    /\ Indexes(WeakValues(byName, Reach(root)), WeakSets(byLabel, Reach(root)),
               [Blank EXCEPT !.op = "collect", !.c = root])
    /\ UNCHANGED <<keep_references, objattrs, auto_register, callbacks,
                   owned, connected, clock, poll>>

NextW ==
    \/ \E c \in WeakArgs : RegisterHeld(c)
    \/ \E c \in HoldArgs : Hold(c)
    \/ \E c \in HoldArgs : Release(c)
    \/ \E r \in WeakArgs : Collect(r)

\* the registry and the owners of its components, in either ownership mode
SpecW == InitW /\ [][NextW]_vars

(***************************************************************************)
(* Attributes changed from outside.  The program sets name and             *)
(* _ophyd_labels_ of the component n1 between calls of the registry, as    *)
(* register expects it may (registry.py 577-578).                          *)
(***************************************************************************)
\* names and label sets the program gives to n1
NewNames == {<<"n">>, <<"z">>, <<"L">>, <<>>}

NewLabels == {{}, {<<"J">>}, {<<"K">>}, {<<"J">>, <<"K">>}}

\* components registered while n1's attributes change
MutRegArgs == {"n1", "s", "d2"}

\* an attribute of n1 is set; the registry is not called
SetAttr(a) ==
    /\ objattrs' = a
    /\ Indexes(byName, byLabel, [Blank EXCEPT !.op = "setattr", !.c = "n1"])
    /\ UNCHANGED <<keep_references, auto_register, callbacks, owned, gone,
                   connected, clock, poll>>

\* n1.name = n
Rename(n) == n # objattrs.name /\ SetAttr([objattrs EXCEPT !.name = n])

\* n1._ophyd_labels_ = ls
Relabel(ls) == ls # objattrs.labels /\ SetAttr([objattrs EXCEPT !.labels = ls])

NextM ==
    \/ \E c \in MutRegArgs : Register(c, LabelsNone, TRUE)
    \/ \E n \in NewNames : Rename(n)
    \/ \E ls \in NewLabels : Relabel(ls)

\* the registry while a component's name and labels change between calls
SpecM == Init /\ [][NextM]_vars

(***************************************************************************)
(* Automatic registration.  The host keeps one list of instantiation       *)
(* callbacks for the process and calls each entry with every newly         *)
(* constructed component; callbacks counts the entries of that list that   *)
(* are this registry's register.                                           *)
(***************************************************************************)
\* assignments of True in a row that are followed
MaxCallbacks == 3

\* components the program constructs
ConstructArgs == {"s", "y", "n1", "x"}

\* registry.py 148: Registry(auto_register=...) runs the setter once
InitA ==
    /\ EmptyRegistry
    /\ keep_references = TRUE
    /\ QuietWorld
    /\ auto_register \in BOOLEAN
    /\ callbacks = IF auto_register THEN 1 ELSE 0

\* registry.py 160-163: add_instantiation_callback appends self.register
AddCallback(n) == n + 1

\* registry.py 165-170: list.remove takes out the first equal entry, and the
\* ValueError of an absent entry is swallowed
RemoveCallback(n) == IF n > 0 THEN n - 1 ELSE n

\* registry.py 155-170: registry.auto_register = val
SetAutoRegister(val) ==
    /\ val => callbacks < MaxCallbacks
    /\ auto_register' = val
    /\ callbacks' = IF val THEN AddCallback(callbacks) ELSE RemoveCallback(callbacks)
    /\ Indexes(byName, byLabel,
               [Blank EXCEPT !.op = "auto_register", !.allow_none = val])
    /\ UNCHANGED <<keep_references, objattrs, owned, gone, connected, clock,
                   poll>>

\* the host calls each entry of the list with the new component
RECURSIVE Notify(_, _, _)
Notify(st, c, n) ==
    IF n = 0 THEN st ELSE Notify(register(st, c, LabelsNone, TRUE), c, n - 1)

Constructed(r, c) ==
    /\ Indexes(r.bn, r.bl, [Blank EXCEPT !.op = "construct", !.c = c])
    /\ owned' = owned \cup {c}
    /\ UNCHANGED <<keep_references, objattrs, auto_register, callbacks, gone,
                   connected, clock, poll>>

\* the program constructs the component c, which it then holds
Construct(c) ==
    /\ c \notin owned
    /\ Constructed(Notify(St(byName, byLabel, 0), c, callbacks), c)

NextA ==
    \/ \E val \in BOOLEAN : SetAutoRegister(val)
    \/ \E c \in ConstructArgs : Construct(c)
    \/ \E k \in PopKeys : Pop(k, UNSET)

\* the registry while its auto_register attribute is switched on and off
\* and components are constructed
SpecA == InitA /\ [][NextA]_vars

(***************************************************************************)
(* Vocabulary of the properties.                                           *)
(***************************************************************************)
\* c is the value the name index holds under c's name
Stored(bn, c) == HasName(c) /\ Name(c) \in DOMAIN bn /\ bn[Name(c)] = c

\* c is a member of some label set
InLabels(bl, c) == \E l \in DOMAIN bl : c \in bl[l]

\* findable by name / by label
FoundByName(bn, bl, c) ==
    find(bn, bl, QNone, QNone, QStr(Name(c)), TRUE) = Ok(<<c>>)

FoundByLabel(bn, bl, c) ==
    \E l \in DOMAIN bl :
        LET r == findall(bn, bl, QNone, QStr(l), QNone, TRUE)
        IN  r.err = "ok" /\ c \in Range(r.out)

\* the sub-components reachable from o, through _signals or children()
RECURSIVE Descendants(_)
Descendants(o) ==
    LET subs == {sub_signals(o)[i][2] : i \in 1..Len(sub_signals(o))}
    IN  subs \cup UNION {Descendants(x) : x \in subs}

\* the last call was register(c2) on a named component whose name was held
\* by a different component c1 of which c2 is not a readback alias
DuplicateCall ==
    /\ last.op = "register"
    /\ HasName(last.c) /\ Name(last.c) # <<>>
    /\ Name(last.c) \in DOMAIN pre.bn
    /\ pre.bn[Name(last.c)] # last.c
    /\ ~is_readback(last.c, pre.bn[Name(last.c)])

\* C1: when a named component c2 is registered while a different component c1
\* holds the same name, and c2 is not a readback alias of c1, the name index
\* still maps the name to c1 afterwards.
C1_FirstRegisteredKept ==
    DuplicateCall =>
        /\ Name(last.c) \in DOMAIN byName
        /\ byName[Name(last.c)] = pre.bn[Name(last.c)]

\* the last call was register(c) on a component already stored under its name
ReRegisterCall == last.op = "register" /\ Stored(pre.bn, last.c)

\* C2: registering a component that is already stored under its current name,
\* with or without a labels argument, leaves component_names, every label set
\* and the outcome of every findall query as they were.
C2_RegisterIdempotent ==
    ReRegisterCall =>
        /\ component_names(byName) = component_names(pre.bn)
        /\ byName = pre.bn
        /\ byLabel = pre.bl
        /\ \A a \in QueryArgs, n \in BOOLEAN :
               findall(byName, byLabel, a[1], a[2], a[3], n)
                   = findall(pre.bn, pre.bl, a[1], a[2], a[3], n)

\* a re-registration with a labels argument that names a label the component
\* is not a member of
C2_Witness ==
    /\ ReRegisterCall
    /\ last.labels.given
    /\ \E l \in last.labels.ls : l \notin DOMAIN byLabel \/ last.c \notin byLabel[l]

\* a component with a non-empty name, no parent and no sub-components
Standalone(c) ==
    HasName(c) /\ Name(c) # <<>> /\ Parent(c) = None /\ sub_signals(c) = <<>>

\* pop(c.name) returns c, and a lookup of c.name then raises ComponentNotFound
RoundTrip(bn, bl, c) ==
    LET r == pop(bn, bl, QStr(Name(c)), UNSET)
    IN  /\ r.err = "ok"
        /\ r.ret = c
        /\ find(r.bn, r.bl, QStr(Name(c)), QNone, QNone, FALSE) = Raise(CNF)

\* C3 as stated: for every standalone component c, pop(register(c).name)
\* returns c and c's name is then not found.
C3_RoundTripAnyName ==
    (last.op = "register" /\ Standalone(last.c)) => RoundTrip(byName, byLabel, last.c)

\* the name is looked up as it is: no dotted path, no user_readback suffix
PlainName(n) == "." \notin Range(n) /\ LastChars(n, 13) # URB

\* no other component is a member of the label set keyed by c's name
NoLabelClash(bl, c) == Name(c) \in DOMAIN bl => bl[Name(c)] \subseteq {c}

\* C3 (amended): for every standalone component c whose name has no dot and
\* no user_readback suffix, and whose name is not a label of another
\* registered component, pop(register(c).name) returns c and a lookup of c's
\* name then raises ComponentNotFound.
C3_RoundTrip ==
    (/\ last.op = "register"
     /\ Standalone(last.c)
     /\ PlainName(Name(last.c))
     /\ NoLabelClash(byLabel, last.c))
        => RoundTrip(byName, byLabel, last.c)

C3_Witness ==
    /\ last.op = "register"
    /\ Standalone(last.c)
    /\ PlainName(Name(last.c))
    /\ NoLabelClash(byLabel, last.c)
    /\ InLabels(byLabel, last.c)
    /\ pop(byName, byLabel, QStr(Name(last.c)), UNSET).ret = last.c

\* C4: after pop(parent) succeeds on a registered parent, no sub-component of
\* the parent that was registered (reached through _signals or through
\* children(), at any depth) is still in the name index or in a label set.
C4_RecursiveTeardown ==
    (/\ last.op = "pop"
     /\ last.err = "ok"
     /\ last.ret \in Objs
     /\ Stored(pre.bn, last.ret))
        => \A d \in Descendants(last.ret) :
               Stored(pre.bn, d) =>
                   /\ ~Stored(byName, d)
                   /\ ~InLabels(byLabel, d)
                   /\ ~FoundByName(byName, byLabel, d)
                   /\ ~FoundByLabel(byName, byLabel, d)

(***************************************************************************)
(* Properties of the query resolver (checked under SpecQ).                 *)
(***************************************************************************)
\* the outcome of findall for the keywords of the last call, with the given
\* allow_none
LastFindall(allow_none) ==
    findall(byName, byLabel, last.any_of, last.label, last.name, allow_none)

RECURSIVE Ancestors(_)
Ancestors(o) ==
    IF Parent(o) = None THEN {} ELSE {Parent(o)} \cup Ancestors(Parent(o))

\* the members of S that are not an ancestor of another member
WithoutAncestors(S) == {c \in S : ~\E d \in S : c \in Ancestors(d)}

\* C5: when the candidates of a find query contain a registered component and
\* a registered ancestor of it, and dropping the ancestors leaves one
\* candidate, find returns that candidate instead of raising
\* MultipleComponentsFound.
C5_AncestorFiltered ==
    LET m == LastFindall(TRUE)
        cands == Range(m.out)
    IN  (/\ last.op = "find"
         /\ m.err = "ok"
         /\ \E c \in cands, d \in cands :
                c \in Ancestors(d) /\ Stored(byName, c) /\ Stored(byName, d)
         /\ Cardinality(WithoutAncestors(cands)) = 1)
            => /\ last.err = "ok"
               /\ last.ret \in WithoutAncestors(cands)

\* no keyword of the last call is a collection
NoListQuery == ~is_iterable(last.any_of) /\ ~is_iterable(last.label)
               /\ ~is_iterable(last.name)

\* C6: find returns the match when the query matches exactly one component,
\* raises MultipleComponentsFound when it matches more than one, and for no
\* match raises ComponentNotFound (allow_none false) or returns None
\* (allow_none true).  The matches are what findall yields with
\* allow_none=True; a single-valued query for which that lookup finds nothing
\* has no match.
C6_FindByCount ==
    LET m == LastFindall(TRUE)
        matches == IF m.err = "ok" THEN Range(m.out) ELSE {}
    IN  (/\ last.op = "find"
         /\ (m.err = "ok" \/ (m.err = CNF /\ NoListQuery)))
            => /\ Cardinality(matches) = 1 =>
                      last.err = "ok" /\ last.ret \in matches
               /\ Cardinality(matches) > 1 => last.err = MCF
               /\ Cardinality(matches) = 0 =>
                      IF last.allow_none
                      THEN last.err = "ok" /\ last.ret = None
                      ELSE last.err = CNF

\* C7: findall with allow_none=True never raises ComponentNotFound, whatever
\* the shape of the query and the keyword it is passed as.
C7_NoneTolerant ==
    (last.op = "findall" /\ last.allow_none) => last.err # CNF

\* the last call passed one collection, as the only keyword
ListPosition ==
    {i \in 1..3 :
        /\ is_iterable(<<last.any_of, last.label, last.name>>[i])
        /\ \A j \in (1..3) \ {i} : <<last.any_of, last.label, last.name>>[j] = QNone}

\* the outcome of findall for one element of the collection, passed as the
\* same keyword
ElementFindall(i, q) ==
    findall(byName, byLabel,
            IF i = 1 THEN q ELSE QNone,
            IF i = 2 THEN q ELSE QNone,
            IF i = 3 THEN q ELSE QNone, TRUE)

\* the outcome, with allow_none=True, of each element of the collection
EachElement(i) ==
    LET items == <<last.any_of, last.label, last.name>>[i].items
    IN  [k \in 1..Len(items) |-> ElementFindall(i, items[k])]

ElementUnion(i) ==
    UNION {Range(EachElement(i)[k].out) : k \in DOMAIN EachElement(i)}

\* the last call was findall on one collection whose elements all resolve
CollectionCall(i) ==
    /\ last.op = "findall"
    /\ i \in ListPosition
    /\ \A k \in DOMAIN EachElement(i) : EachElement(i)[k].err = "ok"

\* C8 as stated: findall on a collection returns the union of the matches of
\* its elements, and with allow_none false it raises ComponentNotFound only
\* when that union is empty.
C8_RaisesOnlyIfAllMissing ==
    \A i \in 1..3 :
        CollectionCall(i) =>
            /\ ElementUnion(i) # {} =>
                   (last.err = "ok" /\ Range(last.out) = ElementUnion(i))
            /\ (ElementUnion(i) = {} /\ ~last.allow_none) => last.err = CNF

\* some element of the collection matches nothing, or there is no element
SomeElementMissing(i) ==
    \/ DOMAIN EachElement(i) = {}
    \/ \E k \in DOMAIN EachElement(i) : EachElement(i)[k].out = <<>>

\* C8 (amended): findall on a collection returns the union of the matches of
\* its elements when every element matches something; with allow_none false
\* it raises ComponentNotFound as soon as one element matches nothing (or the
\* collection is empty).
C8_CollectionUnion ==
    \A i \in 1..3 :
        CollectionCall(i) =>
            /\ ~SomeElementMissing(i) =>
                   (last.err = "ok" /\ Range(last.out) = ElementUnion(i))
            /\ (SomeElementMissing(i) /\ ~last.allow_none) => last.err = CNF

\* a collection with a matching and a missing element, allow_none false
C8_Witness ==
    \E i \in 1..3 :
        /\ CollectionCall(i)
        /\ ~last.allow_none
        /\ ElementUnion(i) # {}
        /\ SomeElementMissing(i)
        /\ last.err = CNF

NoDuplicates(q) == \A i, j \in 1..Len(q) : q[i] = q[j] => i = j

\* outcome of a call up to the order of the list returned
SameOutcome(r1, r2) == r1.err = r2.err /\ Range(r1.out) = Range(r2.out)

\* C9: findall(any_of=q) returns, each component once, the components q
\* matches as a label together with those it matches as a name; an explicit
\* label= or name= replaces any_of for its dimension, whatever the shape of
\* any_of.
C9_AnyOf ==
    (last.op = "findall" /\ last.any_of # QNone) =>
        LET _label == IF last.label # QNone THEN last.label ELSE last.any_of
            _name == IF last.name # QNone THEN last.name ELSE last.any_of
            byL == findall(byName, byLabel, QNone, _label, QNone, TRUE)
            byN == findall(byName, byLabel, QNone, QNone, _name, TRUE)
        IN  /\ (last.err = "ok" /\ byL.err = "ok" /\ byN.err = "ok") =>
                   /\ Range(last.out) = Range(byL.out) \cup Range(byN.out)
                   /\ NoDuplicates(last.out)
            /\ (last.label # QNone \/ last.name # QNone) =>
                   SameOutcome([err |-> last.err, out |-> last.out],
                               findall(byName, byLabel, QNone, _label, _name,
                                       last.allow_none))

\* the last call was find(name=s) or find(label=s) for a string s with a dot
DottedFind(dim) ==
    /\ last.op = "find"
    /\ last.any_of = QNone
    /\ IF dim = "name" THEN last.label = QNone /\ last.name.kind = "str"
                       ELSE last.name = QNone /\ last.label.kind = "str"
    /\ Len(Split(IF dim = "name" THEN last.name.s ELSE last.label.s)) > 1

\* the components the prefix of the dotted string stands for: the component
\* stored under that name, or the only member of that label set
PrefixTargets(dim) ==
    LET key == Head(Split(IF dim = "name" THEN last.name.s ELSE last.label.s))
    IN  IF dim = "name"
        THEN {c \in Objs : key \in DOMAIN byName /\ byName[key] = c}
        ELSE {c \in Objs : key \in DOMAIN byLabel /\ byLabel[key] = {c}}

PathOf(dim) == Tail(Split(IF dim = "name" THEN last.name.s ELSE last.label.s))

\* the attribute of c that a path of one or two segments names
AttrAt(c, path) ==
    IF Len(path) = 1 THEN Attr(c, path[1])
    ELSE IF Attr(c, path[1]) = NoAttr THEN NoAttr
    ELSE Attr(Attr(c, path[1]), path[2])

\* find returned the object at the end of the path
ReturnsPath(dim) ==
    \A c \in PrefixTargets(dim) :
        (Len(PathOf(dim)) \in {1, 2} /\ AttrAt(c, PathOf(dim)) # NoAttr) =>
            last.err = "ok" /\ last.ret = AttrAt(c, PathOf(dim))

\* C10 as stated: find(name="N.a") and find(label="L.a") return the
\* sub-attribute reached from the component found by N or by L, for every
\* sub-attribute.
C10_DottedPathAnyAttr ==
    \A dim \in {"name", "label"} : DottedFind(dim) => ReturnsPath(dim)

\* C10 (amended): the same, except that a name query ending in user_readback
\* is resolved by the user_readback rule instead of as a dotted path.
C10_DottedPath ==
    /\ (DottedFind("name") /\ LastChars(last.name.s, 13) # URB) => ReturnsPath("name")
    /\ DottedFind("label") => ReturnsPath("label")

\* a two-segment path resolved from a name
C10_Witness ==
    /\ DottedFind("name")
    /\ LastChars(last.name.s, 13) # URB
    /\ Len(PathOf("name")) = 2
    /\ \E c \in PrefixTargets("name") :
           AttrAt(c, PathOf("name")) # NoAttr /\ last.ret = AttrAt(c, PathOf("name"))

\* q is a component-shaped object: an object that has a name
ComponentShaped(q) == q.kind = "obj" /\ q.o \in Objs /\ Name(q.o) # <<>>

\* the last call was find with one such object as its only argument
ResolvedQuery ==
    /\ last.op = "find"
    /\ \/ ComponentShaped(last.any_of) /\ last.label = QNone /\ last.name = QNone
       \/ ComponentShaped(last.label) /\ last.any_of = QNone /\ last.name = QNone
       \/ ComponentShaped(last.name) /\ last.any_of = QNone /\ last.label = QNone

\* the component handed to that call
ResolvedArg ==
    IF last.any_of # QNone THEN last.any_of.o
    ELSE IF last.label # QNone THEN last.label.o ELSE last.name.o

\* C11: when the query given to find is itself a component (an object with a
\* name), find returns that same object as its single result, whatever the
\* name index and the label sets hold.
C11_PassThrough ==
    ResolvedQuery =>
        /\ last.err = "ok"
        /\ last.out = <<ResolvedArg>>
        /\ last.ret = ResolvedArg

\* a component that is in neither index is handed to find and comes back
C11_Witness ==
    /\ ResolvedQuery
    /\ ~Stored(byName, ResolvedArg)
    /\ ~InLabels(byLabel, ResolvedArg)
    /\ last.ret = ResolvedArg

\* the registered components X that have a user_readback sub-attribute and
\* whose name followed by "_user_readback" is the string handed to find
SuffixTargets ==
    {c \in Objs :
        /\ Stored(byName, c)
        /\ Attr(c, URB) # NoAttr
        /\ last.any_of = QStr(Name(c) \o <<"_">> \o URB)}

\* the last call was find("X_user_readback")
SuffixFind ==
    /\ last.op = "find"
    /\ last.label = QNone /\ last.name = QNone
    /\ SuffixTargets # {}

\* C12: for a registered component named X that has a user_readback
\* sub-attribute, find("X_user_readback") returns X.user_readback.
C12_UserReadbackSuffix ==
    SuffixFind =>
        \A c \in SuffixTargets : last.err = "ok" /\ last.ret = Attr(c, URB)

\* the last call was pop(key) or del registry[key] with a string key that,
\* read up to its first dot, is no key of the name index and no label with a
\* member
MissingKeyCall ==
    /\ last.op \in {"pop", "delitem"}
    /\ last.key.kind = "str"
    /\ LastChars(last.key.s, 13) # URB
    /\ Head(Split(last.key.s)) \notin DOMAIN pre.bn
    /\ \A l \in DOMAIN pre.bl : l = Head(Split(last.key.s)) => pre.bl[l] = {}

\* C13: pop(key) with a string key that matches no registered name and no
\* label raises ComponentNotFound when no default is supplied and returns the
\* default otherwise; del registry[key] raises ComponentNotFound likewise; the
\* name index and every label set are left unchanged.
C13_PopMissing ==
    MissingKeyCall =>
        /\ last.default = UNSET => last.err = CNF
        /\ last.default # UNSET => last.err = "ok" /\ last.ret = last.default
        /\ byName = pre.bn
        /\ byLabel = pre.bl

\* a missing key was popped with a default from a registry that is not empty
C13_Witness ==
    /\ MissingKeyCall
    /\ last.op = "pop"
    /\ last.default # UNSET
    /\ last.ret = last.default
    /\ byName # EmptyDict

\* the string and collection queries
LookupQueries == {QStr(x) : x \in QueryStrings} \cup QueryLists

\* nothing is registered: no name, no label member, and every lookup by name
\* or by label with allow_none false raises ComponentNotFound
Cleared ==
    /\ component_names(byName) = {}
    /\ \A l \in DOMAIN byLabel : byLabel[l] = {}
    /\ \A q \in LookupQueries :
        /\ find(byName, byLabel, QNone, QNone, q, FALSE).err = CNF
        /\ find(byName, byLabel, QNone, q, QNone, FALSE).err = CNF
        /\ findall(byName, byLabel, QNone, QNone, q, FALSE).err = CNF
        /\ findall(byName, byLabel, QNone, q, QNone, FALSE).err = CNF

\* the indexes before the last call held no name and no label member
WasEmpty == pre.bn = EmptyDict /\ \A l \in DOMAIN pre.bl : pre.bl[l] = {}

\* C14: after clear(), whatever calls came before, component_names is empty,
\* no label set has a member and every find or findall by name or label with
\* allow_none false raises ComponentNotFound, and this stays so after every
\* later call that is not a register.
C14_ClearEmpties ==
    (last.op = "clear" \/ (WasEmpty /\ last.op # "register")) => Cleared

\* clear() was called on a registry holding names and label members
C14_Witness ==
    /\ last.op = "clear"
    /\ pre.bn # EmptyDict
    /\ \E l \in DOMAIN pre.bl : pre.bl[l] # {}
    /\ Cleared

\* the readback, user_readback and val sub-components of d that carry d's name
AliasSubs(d) ==
    {c \in {Attr(d, RB), Attr(d, URB), Attr(d, VAL)} \ {NoAttr} : Name(c) = Name(d)}

\* d and everything reachable from it
Tree(d) == {d} \cup Descendants(d)

\* before the last call no name of d's tree was a key of the name index
FreshTree(d) == \A c \in Tree(d) : Name(c) \notin DOMAIN pre.bn

\* the last call registered a device that has a same-named readback
AliasDeviceCall == last.op = "register" /\ AliasSubs(last.c) # {}

\* the last call registered, on its own, a same-named readback of the
\* device stored under that name
AliasSubCall ==
    /\ last.op = "register"
    /\ HasName(last.c)
    /\ Name(last.c) \in DOMAIN pre.bn
    /\ last.c \in AliasSubs(pre.bn[Name(last.c)])

\* C18: registering a device whose readback, user_readback or val
\* sub-component carries the device's own name leaves the device as the entry
\* for that name, and the registration of the sub-component emits no
\* duplicate-name warning.
C18_ReadbackAlias ==
    /\ AliasDeviceCall =>
        /\ Stored(byName, last.c)
        /\ FreshTree(last.c) => last.warns = 0
    /\ AliasSubCall =>
        /\ byName = pre.bn
        /\ byLabel = pre.bl
        /\ last.warns = 0

\* a device with a same-named user_readback was registered for the first
\* time, with warnings enabled
C18_Witness ==
    /\ AliasDeviceCall
    /\ last.warn
    /\ FreshTree(last.c)
    /\ Stored(byName, last.c)
    /\ last.warns = 0

\* C19: one register call on a distinct, non-alias component whose name is
\* already used produces exactly one duplicate-name warning when
\* warn_duplicates is true, however many of its sub-components collide too,
\* and no warning when warn_duplicates is false.
C19_OneWarning ==
    DuplicateCall => last.warns = (IF last.warn THEN 1 ELSE 0)

\* a duplicate was registered with warnings enabled while one of its
\* sub-components collided with a registered name as well
C19_Witness ==
    /\ DuplicateCall
    /\ last.warn
    /\ \E c \in Descendants(last.c) :
           Name(c) \in DOMAIN pre.bn /\ pre.bn[Name(c)] # c
    /\ last.warns = 1

\* the last call was register(d) on a root device d
RootRegisterCall == last.op = "register" /\ HasName(last.c) /\ Parent(last.c) = None

\* the name of d and of every sub-component reachable from d is a component
\* name; the root views hold d, none of its sub-components, and exactly the
\* entries without a parent
TreeRegistered(d) ==
    /\ \A c \in Tree(d) : Name(c) \in component_names(byName)
    /\ d \in root_devices(byName)
    /\ Name(d) \in device_names(byName)
    /\ root_devices(byName) \cap Descendants(d) = {}
    /\ \A k \in DOMAIN byName :
        /\ k \in device_names(byName) <=> Parent(byName[k]) = None
        /\ byName[k] \in root_devices(byName) <=> Parent(byName[k]) = None
    /\ root_devices(byName) = {byName[k] : k \in device_names(byName)}

EvictionReturned == last.op = "pop_disconnected" /\ poll.pc = "idle"

\* no lookup by c's name or by a label returns c
Unfindable(c) ==
    /\ ~FoundByName(byName, byLabel, c)
    /\ ~FoundByLabel(byName, byLabel, c)

\* C15: pop_disconnected returns exactly the root components registered when
\* the call started that reported connected == false at every sampling round;
\* each returned component and its sub-components are unfindable afterwards,
\* and every root component that reported connected (or has no connected
\* attribute) at some sampling round remains findable.
C15_EvictionExact ==
    EvictionReturned =>
        /\ last.err = "ok"
        /\ Range(last.out) = poll.roots0 \ poll.seen
        /\ \A c \in Range(last.out) : \A x \in Tree(c) : Unfindable(x)
        /\ \A c \in poll.seen : FoundByName(byName, byLabel, c)

\* C16: a root component that is disconnected when pop_disconnected(timeout=T)
\* starts, and whose connected state is set to true by another thread before
\* T has elapsed, is not removed by that call and remains findable afterwards.
C16_ConnectedInTimeKept ==
    EvictionReturned =>
        \A c \in poll.early :
            c \notin Range(last.out) /\ FoundByName(byName, byLabel, c)

\* c is held outside the registry, and was stored before the last change of
\* the indexes or has just been registered
HeldRegistered(c) ==
    /\ c \in owned
    /\ Stored(pre.bn, c) \/ (last.op = "register" /\ last.c = c /\ HasName(c))

\* c is in neither index, and find by its name or by one of its labels raises
\* ComponentNotFound
Forgotten(c) ==
    /\ \A k \in DOMAIN byName : byName[k] # c
    /\ ~InLabels(byLabel, c)
    /\ find(byName, byLabel, QNone, QNone, QStr(Name(c)), FALSE).err = CNF
    /\ \A l \in OphydLabels(c) :
           find(byName, byLabel, QNone, QStr(l), QNone, FALSE).err = CNF

\* C17: in a registry built with keep_references=False, a registered component
\* is findable as long as some owner outside the registry holds it; once it
\* has been reclaimed it is in neither the name index nor any label set, and
\* find by its name or label raises ComponentNotFound.
C17_WeakReferences ==
    ~keep_references =>
        \A c \in Objs :
            /\ HeldRegistered(c) => Stored(byName, c) /\ FoundByName(byName, byLabel, c)
            /\ c \in gone => Forgotten(c)

\* a registered, labelled device was reclaimed from a weak registry
C17_Witness ==
    /\ ~keep_references
    /\ last.op = "collect"
    /\ Stored(pre.bn, last.c)
    /\ InLabels(pre.bl, last.c)
    /\ last.c \in gone
    /\ Forgotten(last.c)

\* C21: a rejected registration is fully skipped: when register(c2) meets a
\* distinct, non-alias component already stored under c2's name, the name
\* index and every label set are the same after the call as before it.
C21_RejectedSkipped ==
    DuplicateCall => byName = pre.bn /\ byLabel = pre.bl

\* C22: in a strong-reference registry, after any sequence of register, pop,
\* delete and clear calls (with colliding names and with empty names), every
\* member of every label set is also a value of the name index.
C22_LabelsAreNamed ==
    keep_references =>
        \A l \in DOMAIN byLabel : \A c \in byLabel[l] :
            \E k \in DOMAIN byName : byName[k] = c

\* the last call was findall with one dotted string, as name or as label
DottedFindall(dim) ==
    /\ last.op = "findall"
    /\ last.any_of = QNone
    /\ IF dim = "name"
       THEN last.label = QNone /\ last.name.kind = "str"
                               /\ LastChars(last.name.s, 13) # URB
       ELSE last.name = QNone /\ last.label.kind = "str"
    /\ Len(PathOf(dim)) \in {1, 2}

\* the components the prefix of the dotted string matches
Candidates(dim) ==
    LET key == Head(Split(IF dim = "name" THEN last.name.s ELSE last.label.s))
    IN  IF dim = "name"
        THEN {c \in Objs : key \in DOMAIN byName /\ byName[key] = c}
        ELSE {c \in Objs : key \in DOMAIN byLabel /\ c \in byLabel[key]}

\* what the candidates that have the whole path resolve to
Survivors(dim) ==
    {AttrAt(c, PathOf(dim)) : c \in Candidates(dim)} \ {NoAttr}

\* some candidate lacks a segment of the path
TraversalFails(dim) ==
    \E c \in Candidates(dim) : AttrAt(c, PathOf(dim)) = NoAttr

\* C25: when a dotted query's prefix matches a registered component but a
\* later path segment is not an attribute of that candidate, findall drops
\* the candidate without raising the traversal failure and returns the
\* remaining candidates, or reports ComponentNotFound / an empty result
\* according to allow_none.
C25_TraversalSwallowed ==
    \A dim \in {"name", "label"} :
        (DottedFindall(dim) /\ TraversalFails(dim)) =>
            IF Survivors(dim) # {}
            THEN last.err = "ok" /\ Range(last.out) = Survivors(dim)
            ELSE IF last.allow_none THEN last.err = "ok" /\ last.out = <<>>
            ELSE last.err = CNF

\* the last call was register(c) on a component without a name attribute or
\* with an empty name
UnnamedCall ==
    /\ last.op = "register"
    /\ ~HasName(last.c) \/ Name(last.c) = <<>>

\* C26: register(c) on a component whose name is missing or is the empty
\* string returns c and leaves the name index and every label set unchanged,
\* even when c carries labels or has named sub-components.
C26_UnnamedNoOp ==
    UnnamedCall => last.ret = last.c /\ byName = pre.bn /\ byLabel = pre.bl

\* the last call was pop(x) on a component object x, and it returned
ObjectPop == last.op = "pop" /\ last.key.kind = "obj" /\ last.err = "ok"

\* C29: pop(x) given a component object x removes from the name index only
\* entries whose value is x or a sub-component of x; a different registered
\* component that shares a name with x or with one of x's sub-components
\* stays in the name index and stays findable.
C29_PopOnlySubtree ==
    ObjectPop =>
        \A k \in DOMAIN pre.bn :
            pre.bn[k] \notin Reach(last.key.o) =>
                /\ k \in DOMAIN byName
                /\ byName[k] = pre.bn[k]
                /\ FoundByName(pre.bn, pre.bl, pre.bn[k])
                       => FoundByName(byName, byLabel, pre.bn[k])

\* the keys of the name index whose value is c
KeysOf(bn, c) == {k \in DOMAIN bn : bn[k] = c}

\* the last call was register(c) with c's own labels on a component that
\* was stored before the call
RegisteredAgain ==
    /\ last.op = "register"
    /\ ~last.labels.given
    /\ KeysOf(pre.bn, last.c) # {}

\* the labels whose set held c before the last call and that c no longer
\* carries
DroppedLabels(c) ==
    {l \in DOMAIN pre.bl : c \in pre.bl[l] /\ l \notin OphydLabels(c)}

\* findall(label=l) returns c
FoundUnder(l, c) ==
    LET r == findall(byName, byLabel, QNone, QStr(l), QNone, TRUE)
    IN  r.err = "ok" /\ c \in Range(r.out)

\* C23: label reconciliation: when a registered component whose label set has
\* changed is registered again, it is removed from the set of every label it
\* no longer carries, and findall(label=<dropped label>) no longer returns it.
C23_LabelsReconciled ==
    RegisteredAgain =>
        \A l \in DroppedLabels(last.c) :
            /\ l \in DOMAIN byLabel => last.c \notin byLabel[l]
            /\ ~FoundUnder(l, last.c)

\* the last call was register(c) on a component that has a non-empty name
\* and is not a same-named readback of the component stored under that name
AcceptedCall ==
    /\ last.op = "register"
    /\ HasName(last.c)
    /\ Name(last.c) # <<>>
    /\ Name(last.c) \in DOMAIN pre.bn => last.c \notin AliasSubs(pre.bn[Name(last.c)])

C28_ToggleOff ==
    /\ ~auto_register =>
        /\ callbacks = 0
        /\ last.op = "construct" => byName = pre.bn /\ byLabel = pre.bl
    /\ last.op = "auto_register" => last.err = "ok"

\* C27: every pop_disconnected(timeout=T) call eventually returns, given that
\* the clock advances, even if a candidate never reports connected; a
\* sampling round at which every candidate reports connected ends the loop
\* without a sleep, and otherwise the loop is left after the first sleep that
\* ends with more than T elapsed.
C27_EvictionTerminates ==
    /\ (poll.pc # "idle") ~> (poll.pc = "idle")
    /\ [][(/\ poll.pc = "filter"
           /\ poll'.pc # "filter"
           /\ \A dev \in poll.remaining : ReportsConnected(dev))
              => poll'.pc = "pop"]_vars
    /\ [][(poll.pc = "sleep" /\ poll'.pc # "sleep")
              => poll'.pc = (IF clock > poll.timeout THEN "pop" ELSE "filter")]_vars
    /\ [][poll.pc = "pop" => poll'.pc \in {"pop", "idle"}]_vars

\* a call with the longest timeout returned a device that never reported
\* connected, after more than the timeout had elapsed
C27_Witness ==
    /\ last.op = "pop_disconnected"
    /\ poll.pc = "idle"
    /\ poll.timeout = MaxTimeout
    /\ clock > poll.timeout
    /\ last.out # <<>>

====
